---- MODULE Spec2Model ----
(***************************************************************************)
(* Model of go_download_attachment (src/main.go): main renders a page in   *)
(* a browser session, reads the src attribute of every img element,        *)
(* resolves each against the page URL and downloads it into a directory.   *)
(*                                                                         *)
(* Strings are sequences of tokens.  The tokens "/", ".", ":" are the      *)
(* characters of that name, "%2E" is a percent-escaped dot, "%zz" is an    *)
(* invalid percent-escape, and every other token ("a", "png", "weird",     *)
(* "site.test", ...) stands for a run of ordinary characters that holds    *)
(* none of the separators.                                                 *)
(***************************************************************************)
EXTENDS Integers, Sequences, FiniteSets, TLC

\* Largest number of img elements the evaluated script returns.
MaxEntries == 3

----------------------------------------------------------------------------
\* Strings, paths and URLs

Slash == "/"
Dot == "."
Colon == ":"
EscDot == "%2E"
BadEsc == "%zz"

Digits == <<"0", "1", "2", "3", "4", "5", "6", "7", "8", "9">>

\* The %d verb of fmt: the decimal digits of a natural number.
RECURSIVE Itoa(_)
Itoa(n) ==
    IF n < 10 THEN <<Digits[n + 1]>>
    ELSE Itoa(n \div 10) \o <<Digits[(n % 10) + 1]>>

\* Index of the last occurrence of tok in s, 0 when there is none.
LastIndex(s, tok) ==
    LET hits == {k \in 1..Len(s) : s[k] = tok}
    IN  IF hits = {} THEN 0 ELSE CHOOSE k \in hits : \A j \in hits : j <= k

\* Index of the first occurrence of tok in s, 0 when there is none.
FirstIndex(s, tok) ==
    LET hits == {k \in 1..Len(s) : s[k] = tok}
    IN  IF hits = {} THEN 0 ELSE CHOOSE k \in hits : \A j \in hits : k <= j

\* url.unescape on a path: every valid percent-escape becomes its character.
Unescape(s) == [k \in 1..Len(s) |-> IF s[k] = EscDot THEN Dot ELSE s[k]]

\* strings.Split(s, "/")
RECURSIVE Split(_)
Split(s) ==
    LET k == FirstIndex(s, Slash)
    IN  IF k = 0 THEN <<s>>
        ELSE <<SubSeq(s, 1, k - 1)>> \o Split(SubSeq(s, k + 1, Len(s)))

\* One turn of the loop of url.resolvePath over the elements of the merged
\* path: st.dst is the builder (it starts as "/"), st.first says that no
\* element has been written yet.
ResolveStep(st, elem) ==
    IF elem = <<Dot>> THEN [dst |-> st.dst, first |-> FALSE]
    ELSE IF elem = <<Dot, Dot>> THEN
        LET str == Tail(st.dst)
            index == LastIndex(str, Slash)
        IN  IF index = 0 THEN [dst |-> <<Slash>>, first |-> TRUE]
            ELSE [dst |-> <<Slash>> \o SubSeq(str, 1, index - 1),
                  first |-> st.first]
    ELSE [dst |-> (IF st.first THEN st.dst ELSE st.dst \o <<Slash>>) \o elem,
          first |-> FALSE]

RECURSIVE ResolveFold(_, _)
ResolveFold(st, elems) ==
    IF elems = <<>> THEN st
    ELSE ResolveFold(ResolveStep(st, Head(elems)), Tail(elems))

\* url.resolvePath(base, ref): merge ref into base (RFC 3986 5.2.3), then
\* remove the dot segments; the result keeps one leading "/".
resolvePath(basePath, ref) ==
    LET full == IF ref = <<>> THEN basePath
                ELSE IF Head(ref) # Slash
                     THEN SubSeq(basePath, 1, LastIndex(basePath, Slash)) \o ref
                     ELSE ref
        elems == Split(full)
        last == elems[Len(elems)]
        st == ResolveFold([dst |-> <<Slash>>, first |-> TRUE], elems)
        d == IF last = <<Dot>> \/ last = <<Dot, Dot>>
             THEN st.dst \o <<Slash>> ELSE st.dst
    IN  IF full = <<>> THEN <<>>
        ELSE IF Len(d) > 1 /\ d[2] = Slash THEN Tail(d) ELSE d

Schemes == {"http", "https"}

NoURL == [ok |-> FALSE, scheme |-> "", host |-> <<>>, epath |-> <<>>]

\* url.Parse(raw): a URL is its scheme, its host and its escaped path; the
\* decoded path is Unescape(epath).  An invalid percent-escape is the parse
\* error.  (Queries, fragments, user info and opaque URLs are not modelled.)
ParseURL(raw) ==
    IF \E k \in 1..Len(raw) : raw[k] = BadEsc THEN NoURL
    ELSE
        LET hasScheme == Len(raw) >= 2 /\ raw[1] \in Schemes /\ raw[2] = Colon
            rest == IF hasScheme THEN SubSeq(raw, 3, Len(raw)) ELSE raw
            hasAuth == Len(rest) >= 2 /\ rest[1] = Slash /\ rest[2] = Slash
            after == IF hasAuth THEN SubSeq(rest, 3, Len(rest)) ELSE rest
            k == FirstIndex(after, Slash)
            hostEnd == IF k = 0 THEN Len(after) ELSE k - 1
        IN  [ok |-> TRUE,
             scheme |-> IF hasScheme THEN raw[1] ELSE "",
             host |-> IF hasAuth THEN SubSeq(after, 1, hostEnd) ELSE <<>>,
             epath |-> IF hasAuth THEN SubSeq(after, hostEnd + 1, Len(after))
                       ELSE rest]

\* (*URL).ResolveReference(ref)
ResolveReference(u, ref) ==
    IF ref.scheme # "" \/ ref.host # <<>> THEN
        [ok |-> TRUE,
         scheme |-> IF ref.scheme = "" THEN u.scheme ELSE ref.scheme,
         host |-> ref.host,
         epath |-> resolvePath(ref.epath, <<>>)]
    ELSE
        [ok |-> TRUE, scheme |-> u.scheme, host |-> u.host,
         epath |-> resolvePath(u.epath, ref.epath)]

\* base.Parse(src): parse the reference, then resolve it against base.
BaseParse(u, src) ==
    LET ref == ParseURL(src)
    IN  IF ref.ok THEN ResolveReference(u, ref) ELSE NoURL

\* (*URL).String()
URLString(u) ==
    (IF u.scheme # "" THEN <<u.scheme, Colon>> ELSE <<>>)
    \o (IF u.scheme # "" \/ u.host # <<>> THEN <<Slash, Slash>> \o u.host ELSE <<>>)
    \o u.epath

\* The Path field of a URL: the decoded path.
URLPath(u) == Unescape(u.epath)

\* Strip the trailing slashes of a path.
RECURSIVE StripTrailingSlashes(_)
StripTrailingSlashes(p) ==
    IF Len(p) > 0 /\ p[Len(p)] = Slash
    THEN StripTrailingSlashes(SubSeq(p, 1, Len(p) - 1))
    ELSE p

\* A base name that is the text after the last "/", "." when there is none.
BaseNoStrip(p) ==
    LET e == SubSeq(p, LastIndex(p, Slash) + 1, Len(p))
    IN  IF e = <<>> THEN <<Dot>> ELSE e

\* filepath.Base where the separator is "/"
Base(p) ==
    IF p = <<>> THEN <<Dot>>
    ELSE
        LET s == StripTrailingSlashes(p)
            e == SubSeq(s, LastIndex(s, Slash) + 1, Len(s))
        IN  IF e = <<>> THEN <<Slash>> ELSE e

\* filepath.Ext: from the last dot of the final element, "" with no dot.
Ext(p) ==
    LET sl == LastIndex(p, Slash)
        dt == LastIndex(p, Dot)
    IN  IF dt > sl THEN SubSeq(p, dt, Len(p)) ELSE <<>>

\* getFileExtension
getFileExtension(p) ==
    IF Ext(p) = <<>> THEN <<Dot, "jpg">> ELSE Ext(p)

----------------------------------------------------------------------------
\* Inputs

\* The page URL of the command line: absent, unparsable, or a page.
PageRef == <<"https", Colon, Slash, Slash, "site.test", Slash, "page">>
PageURLs == {<<>>, <<BadEsc>>, PageRef}

\* The output directory of the command line: absent or a directory.
OutDirs == {<<>>, <<"out">>}

\* The src attribute values a page may carry.
SrcEmpty == <<>>
SrcBad == <<BadEsc>>
SrcA == <<Slash, "a", Dot, "png">>
SrcB == <<"http", Colon, Slash, Slash, "other.test", Slash, "b", Dot, "jpg">>
SrcWeird == <<"weird", Slash, "path", Slash>>
SrcDot == <<Dot>>
SrcEsc == <<"a", EscDot, "png">>
Srcs == {SrcEmpty, SrcBad, SrcA, SrcB, SrcWeird, SrcDot, SrcEsc}

\* What chromedp.Evaluate may store into imgSrcs.
SrcLists == UNION {[1..n -> Srcs] : n \in 0..MaxEntries}

\* The body the server sends in answer to the k-th GET of the run.  Bodies
\* are only copied, never inspected; tagging each with k tells them apart.
ResponseBody(k) == <<k>>

\* net/http's StatusOK, and the final statuses a server may answer with.
http_StatusOK == 200
Statuses == {http_StatusOK, 404}

----------------------------------------------------------------------------
\* State

VARIABLES
    pc,         \* position in main / downloadFile
    pageURL,    \* *pageURL, the -url flag
    outDir,     \* *outDir, the -out flag
    dirExists,  \* os.MkdirAll(*outDir) has succeeded
    base,       \* the parsed page URL
    alloc,      \* the exec allocator: "none", "open", "cancelled"
    ctx,        \* the chromedp context: "none", "open", "cancelled"
    mainDefers, \* main's deferred calls, oldest first
    imgSrcs,    \* the src values read from the page
    i,          \* the loop index of main, 0-based
    console,    \* lines written by fmt.Printf
    logs,       \* lines written by the log package and flag.Usage
    logOrigin,  \* for each line of logs, the loop index it came from, -1 if none
    files,      \* the file system: path -> bytes
    gets,       \* one record per call of downloadFile, in call order
    respOpen,   \* calls whose response body is open
    fileOpen,   \* calls whose output file is open
    dlDefers,   \* downloadFile's deferred calls, oldest first
    filesAtGet, \* files when the current call of downloadFile began
    exitCode    \* the exit status, -1 while the process runs

vars == <<pc, pageURL, outDir, dirExists, base, alloc, ctx, mainDefers, imgSrcs,
          i, console, logs, logOrigin, files, gets, respOpen, fileOpen,
          dlDefers, filesAtGet, exitCode>>

inputVars == <<pageURL, outDir>>
sessionVars == <<alloc, ctx, mainDefers>>
outputVars == <<console, logs, logOrigin>>
dlVars == <<files, gets, respOpen, fileOpen, dlDefers, filesAtGet>>

Init ==
    /\ pc = "start"
    /\ pageURL \in PageURLs
    /\ outDir \in OutDirs
    /\ dirExists = FALSE
    /\ base = NoURL
    /\ alloc = "none"
    /\ ctx = "none"
    /\ mainDefers = <<>>
    /\ imgSrcs = <<>>
    /\ i = 0
    /\ console = <<>>
    /\ logs = <<>>
    /\ logOrigin = <<>>
    /\ files = <<>>
    /\ gets = <<>>
    /\ respOpen = {}
    /\ fileOpen = {}
    /\ dlDefers = <<>>
    /\ filesAtGet = <<>>
    /\ exitCode = -1

\* A line of the log: what it reports, the value it names, the error.
LogLine(kind, arg, err) == [kind |-> kind, arg |-> arg, err |-> err]

\* log.Printf / log.Println from loop index n (-1 outside the loop)
Log(line, n) ==
    /\ logs' = Append(logs, line)
    /\ logOrigin' = Append(logOrigin, n)

\* An exit that reports success whatever the code.
OsExitZero(code) ==
    /\ pc' = "exited"
    /\ exitCode' = 0

\* os.Exit(code): the process ends at once; deferred calls do not run.
OsExit(code) ==
    /\ pc' = "exited"
    /\ exitCode' = code

\* log.Fatalf: write the line, then os.Exit(1).
LogFatal(line) ==
    /\ Log(line, -1)
    /\ OsExit(1)

----------------------------------------------------------------------------
\* main, up to the loop

\* flag.Parse() on flag.CommandLine (ExitOnError): a command line it
\* rejects ends the process with status 2, -h or -help with status 0.
FlagParse ==
    /\ pc = "start"
    /\ \E outcome \in {"ok", "error", "help"} :
        IF outcome = "ok" THEN
            /\ pc' = "argcheck"
            /\ UNCHANGED <<exitCode, logs, logOrigin>>
        ELSE
            /\ Log(LogLine("usage", <<>>, outcome), -1)
            /\ OsExit(IF outcome = "help" THEN 0 ELSE 2)
    /\ UNCHANGED <<inputVars, dirExists, base, sessionVars, imgSrcs, i, console,
                   dlVars>>

\* if *pageURL == "" || *outDir == ""
ArgsMissing(url, dir) == url = <<>> \/ dir = <<>>

ArgCheck ==
    /\ pc = "argcheck"
    /\ IF ArgsMissing(pageURL, outDir) THEN
            /\ Log(LogLine("usage", <<>>, "missing"), -1)
            /\ OsExit(1)
       ELSE
            /\ pc' = "mkdir"
            /\ UNCHANGED <<exitCode, logs, logOrigin>>
    /\ UNCHANGED <<inputVars, dirExists, base, sessionVars, imgSrcs, i, console,
                   dlVars>>

\* A directory creation whose error is ignored.
MkdirNeverFatal(ok) == FALSE

\* if err := os.MkdirAll(...); err != nil
MkdirFatal(ok) == ~ok

MkdirAll ==
    /\ pc = "mkdir"
    /\ \E ok \in BOOLEAN :
        /\ dirExists' = ok
        /\ IF MkdirFatal(ok) THEN
                LogFatal(LogLine("mkdir_failed", outDir, "mkdir"))
           ELSE
                /\ pc' = "parsebase"
                /\ UNCHANGED <<exitCode, logs, logOrigin>>
    /\ UNCHANGED <<inputVars, base, sessionVars, imgSrcs, i, console, dlVars>>

ParseBase ==
    /\ pc = "parsebase"
    /\ LET u == ParseURL(pageURL)
       IN  IF ~u.ok THEN
                /\ LogFatal(LogLine("page_url_parse_failed", pageURL, "parse"))
                /\ UNCHANGED base
           ELSE
                /\ base' = u
                /\ pc' = "alloc"
                /\ UNCHANGED <<exitCode, logs, logOrigin>>
    /\ UNCHANGED <<inputVars, dirExists, sessionVars, imgSrcs, i, console, dlVars>>

\* allocCtx, cancel := chromedp.NewExecAllocator(...); defer cancel()
NewExecAllocator ==
    /\ pc = "alloc"
    /\ alloc' = "open"
    /\ mainDefers' = Append(mainDefers, "cancelAlloc")
    /\ pc' = "newctx"
    /\ UNCHANGED <<inputVars, dirExists, base, ctx, imgSrcs, i, outputVars,
                   dlVars, exitCode>>

\* ctx, cancel := chromedp.NewContext(allocCtx); defer cancel()
NewContext ==
    /\ pc = "newctx"
    /\ ctx' = "open"
    /\ mainDefers' = Append(mainDefers, "cancelCtx")
    /\ pc' = "run"
    /\ UNCHANGED <<inputVars, dirExists, base, alloc, imgSrcs, i, outputVars,
                   dlVars, exitCode>>

\* chromedp.Run(ctx, Navigate, Sleep, Evaluate): launch, navigation or
\* evaluation fails, or the script's result is stored into imgSrcs.
RunFails ==
    /\ pc = "run"
    /\ LogFatal(LogLine("chromedp_failed", pageURL, "run"))
    /\ UNCHANGED <<inputVars, dirExists, base, sessionVars, imgSrcs, i, console,
                   dlVars>>

RunSucceeds ==
    /\ pc = "run"
    /\ \E srcs \in SrcLists : imgSrcs' = srcs
    /\ i' = 0
    /\ pc' = "loop"
    /\ UNCHANGED <<inputVars, dirExists, base, sessionVars, outputVars, dlVars,
                   exitCode>>

----------------------------------------------------------------------------
\* main: the loop over imgSrcs

\* src == "": the entry is passed over.
IsSkipped(src) == src = <<>>

\* Numbering by the count of images announced so far.
DisplayCount(n) == Len(console) + 1

\* The number printed for, and used in the fallback name of, loop index n.
DisplayIndex(n) == n + 1

\* fileName == "" || fileName == "/" || fileName == "."
NeedsFallback(name) == name = <<>> \/ name = <<Slash>> \/ name = <<Dot>>

\* The file name main derives for the resolved URL u at loop index n.
FileName(u, n) ==
    LET name == Base(URLPath(u))
    IN  IF NeedsFallback(name)
        THEN <<"image_">> \o Itoa(DisplayIndex(n)) \o getFileExtension(URLPath(u))
        ELSE name

\* filepath.Join(outDir, fileName), for names that Clean leaves alone.
JoinPath(dir, name) == dir \o <<Slash>> \o name

\* A warning that leaves the src out.
ParseFailLineNoSrc(src, n) == LogLine("src_parse_failed", <<>>, "invalid URL escape")

\* The line of log.Printf when base.Parse(src) fails: the src and the error.
ParseFailLine(src, n) == LogLine("src_parse_failed", src, "invalid URL escape")

\* The loop is over: main returns, its deferred calls run (the last
\* deferred first) and the process ends with status 0.
MainReturn ==
    /\ pc = "loop"
    /\ i >= Len(imgSrcs)
    /\ ctx' = IF \E k \in DOMAIN mainDefers : mainDefers[k] = "cancelCtx"
              THEN "cancelled" ELSE ctx
    /\ alloc' = IF \E k \in DOMAIN mainDefers : mainDefers[k] = "cancelAlloc"
                THEN "cancelled" ELSE alloc
    /\ mainDefers' = <<>>
    /\ pc' = "exited"
    /\ exitCode' = 0
    /\ UNCHANGED <<inputVars, dirExists, base, imgSrcs, i, outputVars, dlVars>>

\* if src == "" { continue }
LoopSkipEmpty ==
    /\ pc = "loop"
    /\ i < Len(imgSrcs)
    /\ IsSkipped(imgSrcs[i + 1])
    /\ i' = i + 1
    /\ UNCHANGED <<pc, inputVars, dirExists, base, sessionVars, imgSrcs,
                   outputVars, dlVars, exitCode>>

\* base.Parse(src) fails: log.Printf, continue
LoopParseFail ==
    /\ pc = "loop"
    /\ i < Len(imgSrcs)
    /\ ~IsSkipped(imgSrcs[i + 1])
    /\ ~BaseParse(base, imgSrcs[i + 1]).ok
    /\ Log(ParseFailLine(imgSrcs[i + 1], i), i)
    /\ i' = i + 1
    /\ UNCHANGED <<pc, inputVars, dirExists, base, sessionVars, imgSrcs, console,
                   dlVars, exitCode>>

\* The entry resolves: print "Image <n>: <url>", derive the file name and
\* call downloadFile(imgURL.String(), *outDir, fileName).
LoopDownload ==
    /\ pc = "loop"
    /\ i < Len(imgSrcs)
    /\ ~IsSkipped(imgSrcs[i + 1])
    /\ LET imgURL == BaseParse(base, imgSrcs[i + 1])
       IN  /\ imgURL.ok
           /\ console' = Append(console, [n |-> DisplayIndex(i),
                                          url |-> URLString(imgURL)])
           /\ gets' = Append(gets, [i |-> i,
                                    url |-> URLString(imgURL),
                                    upath |-> URLPath(imgURL),
                                    name |-> FileName(imgURL, i),
                                    path |-> JoinPath(outDir, FileName(imgURL, i)),
                                    issued |-> FALSE,
                                    status |-> 0,
                                    err |-> "pending"])
    /\ filesAtGet' = files
    /\ pc' = "get"
    /\ UNCHANGED <<inputVars, dirExists, base, sessionVars, imgSrcs, i, logs,
                   logOrigin, files, respOpen, fileOpen, dlDefers, exitCode>>

----------------------------------------------------------------------------
\* downloadFile

\* The call of downloadFile in progress, and its record.
cur == Len(gets)
call == gets[cur]

Returning(err) ==
    /\ gets' = [gets EXCEPT ![cur].err = err]
    /\ pc' = "dlret"

\* resp, err := http.Get(urlStr): a network error, or a response whose
\* body is open; defer resp.Body.Close()
HttpGet ==
    /\ pc = "get"
    /\ \/ /\ gets' = [gets EXCEPT ![cur].issued = TRUE, ![cur].err = "net"]
          /\ pc' = "dlret"
          /\ UNCHANGED <<respOpen, dlDefers>>
       \/ \E st \in Statuses :
          /\ gets' = [gets EXCEPT ![cur].issued = TRUE, ![cur].status = st]
          /\ respOpen' = respOpen \cup {cur}
          /\ dlDefers' = Append(dlDefers, "closeBody")
          /\ pc' = "status"
    /\ UNCHANGED <<inputVars, dirExists, base, sessionVars, imgSrcs, i,
                   outputVars, files, fileOpen, filesAtGet, exitCode>>

\* A status check that lets every response through.
StatusAny(st) == TRUE

\* resp.StatusCode == http.StatusOK
StatusIsOK(st) == st = http_StatusOK

CheckStatus ==
    /\ pc = "status"
    /\ IF StatusIsOK(call.status)
       THEN pc' = "create" /\ UNCHANGED gets
       ELSE Returning("status")
    /\ UNCHANGED <<inputVars, dirExists, base, sessionVars, imgSrcs, i,
                   outputVars, files, respOpen, fileOpen, dlDefers, filesAtGet,
                   exitCode>>

\* An open that keeps the bytes of a file that exists.
NotTruncated(fs, path) == IF path \in DOMAIN fs THEN fs ELSE (path :> <<>>) @@ fs

\* os.Create on success: the file exists and is empty.
Truncated(fs, path) == (path :> <<>>) @@ fs

\* outFile, err := os.Create(filePath); defer outFile.Close()
CreateFile ==
    /\ pc = "create"
    /\ \/ /\ Returning("create")
          /\ UNCHANGED <<files, fileOpen, dlDefers>>
       \/ /\ files' = Truncated(files, call.path)
          /\ fileOpen' = fileOpen \cup {cur}
          /\ dlDefers' = Append(dlDefers, "closeFile")
          /\ pc' = "copy"
          /\ UNCHANGED gets
    /\ UNCHANGED <<inputVars, dirExists, base, sessionVars, imgSrcs, i,
                   outputVars, respOpen, filesAtGet, exitCode>>

\* io.Copy has written the first n bytes of body to the file at path.
Written(fs, path, body, n) == (path :> (fs[path] \o SubSeq(body, 1, n))) @@ fs

\* _, err = io.Copy(outFile, resp.Body): the whole body is written, or a
\* read or write error stops the copy after fewer bytes.
CopyBody ==
    /\ pc = "copy"
    /\ \E n \in 0..Len(ResponseBody(cur)) :
        /\ files' = Written(files, call.path, ResponseBody(cur), n)
        /\ Returning(IF n = Len(ResponseBody(cur)) THEN "nil" ELSE "copy")
    /\ UNCHANGED <<inputVars, dirExists, base, sessionVars, imgSrcs, i,
                   outputVars, respOpen, fileOpen, dlDefers, filesAtGet, exitCode>>

\* A Close that is never made.
NotClosed(open, k) == open

\* A deferred Close of call k's handle in the set open.
Closed(open, k) == open \ {k}

\* A loop that gives up at the first failed download.
AfterDownloadStops(err) == IF err = "nil" THEN "loop" ELSE "exited"

\* What main does once downloadFile has returned err: the loop goes on.
AfterDownload(err) == "loop"

\* downloadFile returns: its deferred calls run (outFile.Close, then
\* resp.Body.Close); main logs a failed download and takes the next entry.
DownloadReturn ==
    /\ pc = "dlret"
    /\ fileOpen' = IF \E k \in DOMAIN dlDefers : dlDefers[k] = "closeFile"
                   THEN Closed(fileOpen, cur) ELSE fileOpen
    /\ respOpen' = IF \E k \in DOMAIN dlDefers : dlDefers[k] = "closeBody"
                   THEN Closed(respOpen, cur) ELSE respOpen
    /\ dlDefers' = <<>>
    /\ IF call.err # "nil"
       THEN Log(LogLine("download_failed", call.url, call.err), i)
       ELSE UNCHANGED <<logs, logOrigin>>
    /\ i' = i + 1
    /\ pc' = AfterDownload(call.err)
    /\ UNCHANGED <<inputVars, dirExists, base, sessionVars, imgSrcs, console,
                   files, gets, filesAtGet, exitCode>>

----------------------------------------------------------------------------

Next ==
    \/ FlagParse
    \/ ArgCheck
    \/ MkdirAll
    \/ ParseBase
    \/ NewExecAllocator
    \/ NewContext
    \/ RunFails
    \/ RunSucceeds
    \/ MainReturn
    \/ LoopSkipEmpty
    \/ LoopParseFail
    \/ LoopDownload
    \/ HttpGet
    \/ CheckStatus
    \/ CreateFile
    \/ CopyBody
    \/ DownloadReturn

Spec == Init /\ [][Next]_vars

TypeOK ==
    /\ pc \in {"start", "argcheck", "mkdir", "parsebase", "alloc", "newctx",
               "run", "loop", "get", "status", "create", "copy", "dlret",
               "exited"}
    /\ alloc \in {"none", "open", "cancelled"}
    /\ ctx \in {"none", "open", "cancelled"}
    /\ i \in 0..Len(imgSrcs)
    /\ Len(logs) = Len(logOrigin)
    /\ exitCode \in {-1, 0, 1, 2}
----------------------------------------------------------------------------
\* Vocabulary of the properties

DlPcs == {"get", "status", "create", "copy", "dlret"}

\* A src that is not empty and parses as a URL reference.
Usable(src) == src # <<>> /\ \A k \in 1..Len(src) : src[k] # BadEsc

\* A src that is not empty and does not parse.
Unparsable(src) == src # <<>> /\ \E k \in 1..Len(src) : src[k] = BadEsc

\* The loop indices below n whose entry is usable, in ascending order.
RECURSIVE UsableBelow(_)
UsableBelow(n) ==
    IF n = 0 THEN <<>>
    ELSE IF Usable(imgSrcs[n]) THEN Append(UsableBelow(n - 1), n - 1)
         ELSE UsableBelow(n - 1)

\* The loop indices of the calls of downloadFile so far, in call order.
CallIndices == [k \in 1..Len(gets) |-> gets[k].i]

\* The number of entries the loop has taken up so far.
Started == IF pc \in DlPcs THEN i + 1 ELSE i

\* The positions of the log lines that came from loop index n.
LinesOf(n) == {k \in 1..Len(logs) : logOrigin[k] = n}

\* C1: every usable entry gets exactly one call of downloadFile, in DOM
\* order, whatever happened to the entries before it; when the process has
\* ended after the loop, every usable entry of the page has had its GET.
C1_FailureIsolation ==
    /\ CallIndices = UsableBelow(Started)
    /\ pc = "exited" =>
        /\ CallIndices = UsableBelow(Len(imgSrcs))
        /\ \A k \in 1..Len(gets) : gets[k].issued /\ gets[k].err # "pending"

\* A run where the first entry does not resolve, the second fails with a
\* non-200 status and the third is still downloaded.
C1_Witness ==
    /\ pc = "exited"
    /\ Len(imgSrcs) = 3
    /\ Unparsable(imgSrcs[1])
    /\ Len(gets) = 2
    /\ gets[1].err = "status"
    /\ gets[2].err = "nil"

\* The fatal conditions the exit-status rule lists, as the run reports them.
ListedFatal ==
    \E k \in 1..Len(logs) :
        \/ logs[k].kind \in {"mkdir_failed", "page_url_parse_failed",
                             "chromedp_failed"}
        \/ logs[k].kind = "usage" /\ logs[k].err = "missing"

\* The flag parser rejected the command line.
FlagRejected ==
    \E k \in 1..Len(logs) : logs[k].kind = "usage" /\ logs[k].err = "error"

\* C2 as stated: the exit status is non-zero exactly when a missing
\* argument, a directory creation failure, a page-URL parse failure or a
\* browser failure occurred.
C2_AsStated == pc = "exited" => (exitCode # 0 <=> ListedFatal)

\* C2, amended: the exit status is non-zero exactly when one of the listed
\* fatal conditions occurred or the flag parser rejected the command line;
\* failed entries leave it 0.
C2_ExitStatus ==
    /\ pc = "exited" => exitCode \in {0, 1, 2}
    /\ pc = "exited" => (exitCode # 0 <=> (ListedFatal \/ FlagRejected))
    /\ pc = "exited" /\ ListedFatal => exitCode = 1

\* A run that ends with status 0 although one entry did not resolve and
\* one download failed.
C2_Witness ==
    /\ pc = "exited"
    /\ exitCode = 0
    /\ \E k \in 1..Len(logs) : logs[k].kind = "src_parse_failed"
    /\ \E k \in 1..Len(logs) : logs[k].kind = "download_failed"

\* C3: once the allocator or the context has been acquired, it has been
\* cancelled by the time the process has ended.
C3_SessionReleased ==
    pc = "exited" =>
        /\ alloc # "none" => alloc = "cancelled"
        /\ ctx # "none" => ctx = "cancelled"

\* The URLs of the scenario of C4.
URL_A == <<"https", Colon, Slash, Slash, "site.test", Slash, "a", Dot, "png">>
URL_B == <<"http", Colon, Slash, Slash, "other.test", Slash, "b", Dot, "jpg">>

\* C4: the i-th console line belongs to the i-th call and carries the
\* call's loop index plus one and its URL; a fallback name carries the
\* same number; an empty entry leaves no console line, no log line and no
\* call; the page '/a.png', '', 'http://other.test/b.jpg' is announced as
\* Image 1 and Image 3.
C4_Numbering ==
    /\ Len(console) = Len(gets)
    /\ \A k \in 1..Len(gets) :
        /\ console[k].n = gets[k].i + 1
        /\ console[k].url = gets[k].url
        /\ Usable(imgSrcs[gets[k].i + 1])
        /\ gets[k].name[1] = "image_" =>
              SubSeq(gets[k].name, 2, 1 + Len(Itoa(gets[k].i + 1)))
                  = Itoa(gets[k].i + 1)
    /\ \A e \in 0..(Len(imgSrcs) - 1) :
        imgSrcs[e + 1] = <<>> =>
            /\ \A k \in 1..Len(console) : console[k].n # e + 1
            /\ \A k \in 1..Len(gets) : gets[k].i # e
            /\ LinesOf(e) = {}
    /\ pc = "exited" /\ imgSrcs = <<SrcA, SrcEmpty, SrcB>> =>
        console = <<[n |-> 1, url |-> URL_A], [n |-> 3, url |-> URL_B]>>

\* The scenario of C4 has run to its end, and both files are there.
C4_Witness ==
    /\ pc = "exited"
    /\ imgSrcs = <<SrcA, SrcEmpty, SrcB>>
    /\ console = <<[n |-> 1, url |-> URL_A], [n |-> 3, url |-> URL_B]>>
    /\ DOMAIN files = {<<"out", Slash, "a", Dot, "png">>,
                       <<"out", Slash, "b", Dot, "jpg">>}

\* C5: once a call of downloadFile has seen a final status other than 200,
\* it returns an error and the files are what they were when it began.
C5_Non200LeavesFiles ==
    gets # <<>> /\ call.status \notin {0, 200} /\ pc # "status" =>
        /\ call.err = "status"
        /\ files = filesAtGet

\* A 404 for a name an earlier entry has written: the call has returned
\* and the earlier file is intact.
C5_Witness ==
    /\ pc = "loop"
    /\ Len(gets) = 2
    /\ gets[1].err = "nil"
    /\ gets[2].status = 404
    /\ gets[2].path = gets[1].path
    /\ files[gets[1].path] = ResponseBody(1)

\* The last non-empty element of a path, <<>> when it has none.
NonEmpty(e) == e # <<>>
LastSegment(p) ==
    LET segs == SelectSeq(Split(p), NonEmpty)
    IN  IF segs = <<>> THEN <<>> ELSE segs[Len(segs)]

EndsWithSlash(p) == p # <<>> /\ p[Len(p)] = Slash

\* C6 as stated: a path that ends with "/" gets the synthesized name
\* image_<i+1><ext>, any other path the text after its last "/".
C6_AsStated ==
    \A k \in 1..Len(gets) :
        LET p == gets[k].upath
        IN  IF EndsWithSlash(p)
            THEN gets[k].name = <<"image_">> \o Itoa(gets[k].i + 1)
                                    \o getFileExtension(p)
            ELSE gets[k].name = SubSeq(p, LastIndex(p, Slash) + 1, Len(p))

\* C6, amended: the name is the last non-empty element of the path,
\* trailing slashes ignored; it is image_<i+1><ext> only when the path has
\* no non-empty element or that element is ".", and ext is then ".jpg"
\* unless the path ends in that ".".
C6_NameDerivation ==
    \A k \in 1..Len(gets) :
        LET p == gets[k].upath
            seg == LastSegment(p)
            ext == IF p = <<>> \/ EndsWithSlash(p) THEN <<Dot, "jpg">>
                   ELSE <<Dot>>
        IN  IF seg = <<>> \/ seg = <<Dot>>
            THEN gets[k].name = <<"image_">> \o Itoa(gets[k].i + 1) \o ext
            ELSE gets[k].name = seg

\* src 'weird/path/' was saved as "path", and the entry after it, whose
\* path is "/", as image_2.jpg.
C6_Witness ==
    /\ pc = "exited"
    /\ Len(gets) = 2
    /\ gets[1].upath = <<Slash, "weird", Slash, "path", Slash>>
    /\ gets[1].name = <<"path">>
    /\ gets[2].upath = <<Slash>>
    /\ gets[2].name = <<"image_", "2", Dot, "jpg">>

\* The three preconditions of the run hold.
PreconditionsMet ==
    /\ pageURL # <<>>
    /\ outDir # <<>>
    /\ dirExists
    /\ \A k \in 1..Len(pageURL) : pageURL[k] # BadEsc

\* C7: the browser session exists, the page has been read or a download
\* has been called only if both arguments were given, the directory was
\* created and the page URL parsed.
C7_PreconditionsFirst ==
    (alloc # "none" \/ ctx # "none" \/ imgSrcs # <<>> \/ gets # <<>>
        \/ console # <<>>)
        => PreconditionsMet /\ base.ok

\* The session is open and a GET is about to be issued.
C7_Witness ==
    /\ pc = "get"
    /\ alloc = "open"
    /\ ctx = "open"
    /\ dirExists

\* The entries the loop has finished with that did not parse.
FailedEntries == {e \in 0..(i - 1) : Unparsable(imgSrcs[e + 1])}

\* C8, amended: an entry that is not empty and does not parse leaves
\* exactly one log line, which names the src; it is not announced and not
\* downloaded, and the loop goes on to the end of the list.
C8_ParseFailure ==
    /\ \A e \in FailedEntries :
        /\ Cardinality(LinesOf(e)) = 1
        /\ \A k \in LinesOf(e) :
            /\ logs[k].kind = "src_parse_failed"
            /\ logs[k].arg = imgSrcs[e + 1]
        /\ \A k \in 1..Len(gets) : gets[k].i # e
        /\ \A k \in 1..Len(console) : console[k].n # e + 1
    /\ pc = "exited" /\ imgSrcs # <<>> => i = Len(imgSrcs)

\* C8 as stated: as above, and the line also identifies the entry's index:
\* lines of different entries differ.
C8_AsStated ==
    /\ C8_ParseFailure
    /\ \A e1, e2 \in FailedEntries :
        \A k1 \in LinesOf(e1), k2 \in LinesOf(e2) :
            logs[k1] = logs[k2] => e1 = e2

\* An unparsable first entry was logged and the entry after it downloaded.
C8_Witness ==
    /\ pc = "exited"
    /\ imgSrcs = <<SrcBad, SrcA>>
    /\ logs = <<[kind |-> "src_parse_failed", arg |-> SrcBad,
                 err |-> "invalid URL escape"]>>
    /\ Len(gets) = 1
    /\ gets[1].i = 1
    /\ gets[1].err = "nil"

\* C9: entries with the same src each get their own GET of the same URL for
\* the same path; calls with the same file name have the same path; a file
\* holds the body of the last successful call for its path unless a later
\* call has created it anew.
C9_NoDedupOverwrite ==
    /\ \A e1, e2 \in 0..(i - 1) :
        e1 < e2 /\ Usable(imgSrcs[e1 + 1]) /\ imgSrcs[e1 + 1] = imgSrcs[e2 + 1] =>
            \E k1, k2 \in 1..Len(gets) :
                /\ k1 < k2
                /\ gets[k1].i = e1 /\ gets[k2].i = e2
                /\ gets[k1].issued /\ gets[k2].issued
                /\ gets[k1].url = gets[k2].url
    /\ \A k1, k2 \in 1..Len(gets) :
        gets[k1].name = gets[k2].name => gets[k1].path = gets[k2].path
    /\ \A k \in 1..Len(gets) :
        (/\ gets[k].err = "nil"
         /\ \A k2 \in (k + 1)..Len(gets) :
                gets[k2].path = gets[k].path =>
                    gets[k2].err \in {"net", "status", "create"})
            => /\ gets[k].path \in DOMAIN files
               /\ files[gets[k].path] = ResponseBody(k)

\* '/a.png' twice, then 'a%2Epng', all three downloads succeeded: three
\* GETs, the first two of the same URL, and the one file a.png holds the
\* third body.
C9_Witness ==
    /\ pc = "exited"
    /\ imgSrcs = <<SrcA, SrcA, SrcEsc>>
    /\ Len(gets) = 3
    /\ \A k \in 1..3 : gets[k].issued /\ gets[k].err = "nil"
    /\ gets[1].url = gets[2].url
    /\ gets[3].url # gets[2].url
    /\ DOMAIN files = {<<"out", Slash, "a", Dot, "png">>}
    /\ files[<<"out", Slash, "a", Dot, "png">>] = ResponseBody(3)

\* C10: when a GET is about to be issued nothing is open; only the call in
\* progress ever holds a body or a file; nothing is open once downloadFile
\* has returned.
C10_Sequential ==
    /\ pc = "get" => respOpen = {} /\ fileOpen = {}
    /\ pc \in DlPcs => respOpen \subseteq {cur} /\ fileOpen \subseteq {cur}
    /\ pc \notin DlPcs => respOpen = {} /\ fileOpen = {}
    /\ pc \in {"create", "copy"} => cur \in respOpen
    /\ pc = "copy" => cur \in fileOpen

\* A third GET is about to be issued after a call that failed in the copy
\* and a call that failed on its status.
C10_Witness ==
    /\ pc = "get"
    /\ Len(gets) = 3
    /\ gets[1].err = "copy"
    /\ gets[2].err = "status"
====
